---- MODULE Spec2Model ----
(***************************************************************************)
(* Model of Meadowlark's ProjectInterface                                  *)
(* (src/src/backend/project_interface/mod.rs): the track bookkeeping       *)
(* tables, the graph edits each operation sends to GraphInterface, the     *)
(* snapshots those edits publish, and the collector thread.                *)
(*                                                                         *)
(* Rust indices are 0-based and are kept 0-based in timeline_track_indexes *)
(* and in port numbers; a TLA+ sequence s holds Rust's v[i] at s[i + 1].   *)
(***************************************************************************)
EXTENDS Integers, Sequences, FiniteSets, TLC

\* Track IDs are strings compared exactly ("a" and "A" are different IDs).
Ids == {"a", "A", "b"}

\* Bound on the length of save_state.timeline_tracks. With three IDs the
\* index table never holds more than three keys either.
MaxTracks == 3

\* Bound on the number of snapshots published after the first.
MaxPublishes == 3

\* stop_collects counts up to this and stays there.
MaxStopCollects == 2

VARIABLES
    save_tracks,                 \* save_state.timeline_tracks
    timeline_track_indexes,      \* FnvHashMap<String, usize>
    timeline_track_handles,      \* Vec<TimelineTrackHandle>
    timeline_track_node_ids,     \* Vec<NodeID>
    master_track_mix_in_node_id, \* NodeID of the mixer
    graph,                       \* the graph GraphInterface owns
    published,                   \* the CompiledGraph held by the shared cell
    last,                        \* the last operation and what it returned
    panicked,                    \* the control thread unwound out of an operation
    port_exclusive,              \* whether the graph refuses a second connection to one input port
    running,                     \* the Arc<AtomicBool> shared with the collector thread
    dropped,                     \* the ProjectInterface has been dropped
    coll_pc,                     \* where run_collector is
    cache_lock,                  \* the Mutex around the ResourceLoader
    cell,                        \* version of the CompiledGraph the SharedCell holds
    render_held,                 \* version the render thread holds a clone of
    queued,                      \* versions whose last handle is gone, awaiting collect()
    freed,                       \* versions whose memory has been freed
    cycle_events,                \* what run_collector has done since it last read the flag
    stop_collects,               \* collector.collect() calls made with the flag cleared
    cache,                       \* the ResourceLoader's buffers, by path
    decodes,                     \* how many times each path has been decoded
    load_pc,                     \* where each caller of load is
    load_path,                   \* the path each caller asked for
    load_uncached,               \* whether that path was uncached when load was called
    held_buffer                  \* the buffer each caller holds a handle to

ctl_vars == <<save_tracks, timeline_track_indexes, timeline_track_handles,
              timeline_track_node_ids, master_track_mix_in_node_id, graph,
              published, last, panicked, port_exclusive>>

rc_vars == <<running, dropped, coll_pc, cache_lock, cell, render_held, queued, freed,
             cycle_events, stop_collects, cache>>

loader_vars == <<decodes, load_pc, load_path, load_uncached, held_buffer>>

\* What the callers of load leave alone.
cell_vars == <<running, dropped, coll_pc, cell, render_held, queued, freed,
               cycle_events, stop_collects>>

vars == <<ctl_vars, rc_vars, loader_vars>>

-----------------------------------------------------------------------------
(* Values *)

\* A TimelineTrackSaveState: its id field and the identity (uid) of the value
\* that was handed to ProjectInterface; the handle and the node built from
\* it by TimelineTrackNode::new carry the same uid.
TrackSave(id, uid) == [id |-> id, uid |-> uid]

TrackHandle(uid) == [uid |-> uid]

TimelineTrackNode(uid) == [kind |-> "track", uid |-> uid, inputs |-> 0]

StereoMixNode(n) == [kind |-> "mix", uid |-> 0, inputs |-> n]

NoNode == [kind |-> "none", uid |-> 0, inputs |-> 0]

NodeIds == 0 .. (MaxTracks + 1)

Min(S) == CHOOSE x \in S : \A y \in S : x <= y

RemoveAt(s, i) == [k \in 1 .. (Len(s) - 1) |-> IF k <= i THEN s[k] ELSE s[k + 1]]

MapRemove(f, k) == [x \in (DOMAIN f) \ {k} |-> f[x]]

MapInsert(f, k, v) == [x \in (DOMAIN f) \cup {k} |-> IF x = k THEN v ELSE f[x]]

-----------------------------------------------------------------------------
(* GraphInterface: the graph, its edits and modify_graph *)

EmptyGraph == [nodes |-> [x \in {} |-> NoNode], conns |-> {}]

Conn(src, src_port, dst, dst_port) ==
    [src |-> src, src_port |-> src_port, dst |-> dst, dst_port |-> dst_port]

\* The NodeID add_new_node hands out next.
NextNodeId(g) == Min(NodeIds \ DOMAIN g.nodes)

EditAddNode(id, node) ==
    [op |-> "add_new_node", id |-> id, node |-> node, src |-> 0, port |-> 0]

EditReplaceNode(id, node) ==
    [op |-> "replace_node", id |-> id, node |-> node, src |-> 0, port |-> 0]

EditConnect(src, dst, dst_port) ==
    [op |-> "add_port_connection", id |-> dst, node |-> NoNode, src |-> src, port |-> dst_port]

EditRemoveNode(id) ==
    [op |-> "remove_node", id |-> id, node |-> NoNode, src |-> 0, port |-> 0]

add_new_node(g, e) ==
    [graph |-> [g EXCEPT !.nodes = MapInsert(g.nodes, e.id, e.node)], ok |-> TRUE]

\* Connections to ports the new node still has are kept.
replace_node(g, e) ==
    IF e.id \notin DOMAIN g.nodes
    THEN [graph |-> g, ok |-> FALSE]
    ELSE [graph |-> [nodes |-> [g.nodes EXCEPT ![e.id] = e.node],
                     conns |-> {c \in g.conns :
                                   c.dst = e.id => c.dst_port < e.node.inputs}],
          ok |-> TRUE]

add_port_connection(g, e, exclusive) ==
    IF \/ e.src \notin DOMAIN g.nodes
       \/ e.id \notin DOMAIN g.nodes
    THEN [graph |-> g, ok |-> FALSE]
    ELSE IF \/ e.port >= g.nodes[e.id].inputs
            \/ Conn(e.src, 0, e.id, e.port) \in g.conns
            \/ exclusive /\ \E c \in g.conns : c.dst = e.id /\ c.dst_port = e.port
         THEN [graph |-> g, ok |-> FALSE]
         ELSE [graph |-> [g EXCEPT !.conns = @ \cup {Conn(e.src, 0, e.id, e.port)}],
               ok |-> TRUE]

\* Removing a node removes the connections that touch it.
remove_node(g, e) ==
    IF e.id \notin DOMAIN g.nodes
    THEN [graph |-> g, ok |-> FALSE]
    ELSE [graph |-> [nodes |-> MapRemove(g.nodes, e.id),
                     conns |-> {c \in g.conns : c.src # e.id /\ c.dst # e.id}],
          ok |-> TRUE]

ApplyEdit(g, e, exclusive) ==
    CASE e.op = "add_new_node" -> add_new_node(g, e)
      [] e.op = "replace_node" -> replace_node(g, e)
      [] e.op = "add_port_connection" -> add_port_connection(g, e, exclusive)
      [] OTHER -> remove_node(g, e)

\* The edits of one closure, in order; the closure unwraps every Result, so
\* the first failed edit unwinds out of it.
RECURSIVE ApplyEdits(_, _, _)
ApplyEdits(g, edits, exclusive) ==
    IF edits = <<>>
    THEN [graph |-> g, ok |-> TRUE]
    ELSE LET r == ApplyEdit(g, Head(edits), exclusive)
         IN  IF r.ok THEN ApplyEdits(r.graph, Tail(edits), exclusive) ELSE r

\* What each add_port_connection of a closure meets when it is called: the
\* port it asks for and the destination node as the edits before it left it.
RECURSIVE ConnectMoments(_, _, _)
ConnectMoments(g, edits, exclusive) ==
    IF edits = <<>>
    THEN <<>>
    ELSE LET e == Head(edits)
             r == ApplyEdit(g, e, exclusive)
             here == IF e.op = "add_port_connection"
                     THEN << [port |-> e.port,
                              dst |-> e.id,
                              dst_node |-> IF e.id \in DOMAIN g.nodes
                                           THEN g.nodes[e.id] ELSE NoNode] >>
                     ELSE <<>>
         IN  IF r.ok THEN here \o ConnectMoments(r.graph, Tail(edits), exclusive)
             ELSE here

\* The CompiledGraph made from a graph: the nodes and their wiring.
Compile(g) == [nodes |-> g.nodes, conns |-> g.conns]

\* modify_graph: run the closure's edits, then compile and publish once.
\* pubs lists the snapshots published, batches counts the calls.
ModifyGraph(g, edits, exclusive) ==
    LET r == ApplyEdits(g, edits, exclusive)
    IN  [graph |-> r.graph, ok |-> r.ok,
         pubs |-> IF r.ok THEN <<Compile(r.graph)>> ELSE <<>>,
         batches |-> 1]

-----------------------------------------------------------------------------
(* ProjectInterface::new *)

RECURSIVE NewIndexes(_, _)
NewIndexes(save, n) ==
    IF n = 0
    THEN [x \in {} |-> 0]
    ELSE MapInsert(NewIndexes(save, n - 1), save[n].id, n - 1)

\* The closure of new with the tracks connected to the mixer inputs in
\* reverse order.
NewEditsReversed(save) ==
    LET n == Len(save)
    IN  [k \in 1 .. n |-> EditAddNode(k - 1, TimelineTrackNode(save[k].uid))]
        \o <<EditAddNode(n, StereoMixNode(n))>>
        \o [k \in 1 .. n |-> EditConnect(k - 1, n, n - k)]

\* The closure of new: one node per track, then the mixer, then one
\* connection per track, track i to mixer input i.
NewEdits(save) ==
    LET n == Len(save)
    IN  [k \in 1 .. n |-> EditAddNode(k - 1, TimelineTrackNode(save[k].uid))]
        \o <<EditAddNode(n, StereoMixNode(n))>>
        \o [k \in 1 .. n |-> EditConnect(k - 1, n, k - 1)]

NewProject(save, exclusive) ==
    LET n == Len(save)
        r == ModifyGraph(EmptyGraph, NewEdits(save), exclusive)
    IN  [save_tracks |-> save,
         timeline_track_indexes |-> NewIndexes(save, n),
         timeline_track_handles |-> [k \in 1 .. n |-> TrackHandle(save[k].uid)],
         timeline_track_node_ids |-> [k \in 1 .. n |-> k - 1],
         master_track_mix_in_node_id |-> n,
         graph |-> r.graph,
         pubs |-> r.pubs,
         batches |-> r.batches]

\* Save states with pairwise distinct track IDs, at most MaxTracks tracks.
InitSaves ==
    UNION {
        {[k \in 1 .. n |-> TrackSave(f[k], k)] :
            f \in {g \in [1 .. n -> Ids] : \A i, j \in 1 .. n : i # j => g[i] # g[j]}}
        : n \in 0 .. MaxTracks}

\* What an operation leaves for its caller and for the shared cell: which
\* operation ran, how it returned ("Ok", "Err", or "panic" when it unwound),
\* the snapshots it published, in order, and its modify_graph calls.
OpRecord(op, result, pubs, batches) ==
    [op |-> op, result |-> result, pubs |-> pubs, batches |-> batches]

InitCtl ==
    /\ port_exclusive \in BOOLEAN
    /\ \E save \in InitSaves :
        LET p == NewProject(save, port_exclusive)
        IN  /\ save_tracks = p.save_tracks
            /\ timeline_track_indexes = p.timeline_track_indexes
            /\ timeline_track_handles = p.timeline_track_handles
            /\ timeline_track_node_ids = p.timeline_track_node_ids
            /\ master_track_mix_in_node_id = p.master_track_mix_in_node_id
            /\ graph = p.graph
            /\ published = p.pubs[Len(p.pubs)]
            /\ last = OpRecord("new", "Ok", p.pubs, p.batches)
    /\ panicked = FALSE

-----------------------------------------------------------------------------
(* Lookups *)

NoHandle == [uid |-> 0]

NoTrack == [id |-> "", uid |-> 0]

LookupResult(tag, handle, save) == [tag |-> tag, handle |-> handle, save |-> save]

\* timeline_track and timeline_track_mut: the same lookup, then two Vec
\* indexings, each of which panics past the end.
timeline_track(id) ==
    IF id \in DOMAIN timeline_track_indexes
    THEN LET index == timeline_track_indexes[id]
         IN  IF index < Len(timeline_track_handles) /\ index < Len(save_tracks)
             THEN LookupResult("Some", timeline_track_handles[index + 1],
                               save_tracks[index + 1])
             ELSE LookupResult("panic", NoHandle, NoTrack)
    ELSE LookupResult("None", NoHandle, NoTrack)

timeline_track_mut(id) == timeline_track(id)

-----------------------------------------------------------------------------
(* set_timeline_track_id *)

\* set_timeline_track_id without its check of new_id.
SetIdRejectsNothing(indexes, new_id) == FALSE

SetIdRejects(indexes, new_id) == new_id \in DOMAIN indexes

SetTimelineTrackId(old_id, new_id) ==
    /\ ~panicked
    /\ IF SetIdRejects(timeline_track_indexes, new_id)
       THEN /\ last' = OpRecord("set_id", "Err", <<>>, 0)
            /\ UNCHANGED <<save_tracks, timeline_track_indexes, panicked>>
       ELSE IF old_id \in DOMAIN timeline_track_indexes
            THEN LET index == timeline_track_indexes[old_id]
                 IN  /\ timeline_track_indexes' =
                            MapInsert(MapRemove(timeline_track_indexes, old_id),
                                      new_id, index)
                     /\ IF index < Len(save_tracks)
                        THEN /\ save_tracks' =
                                    [save_tracks EXCEPT ![index + 1].id = new_id]
                             /\ last' = OpRecord("set_id", "Ok", <<>>, 0)
                             /\ UNCHANGED panicked
                        ELSE \* save_state.timeline_tracks[index] is out of bounds
                             /\ last' = OpRecord("set_id", "panic", <<>>, 0)
                             /\ panicked' = TRUE
                             /\ UNCHANGED save_tracks
            ELSE /\ last' = OpRecord("set_id", "Err", <<>>, 0)
                 /\ UNCHANGED <<save_tracks, timeline_track_indexes, panicked>>
    /\ UNCHANGED <<timeline_track_handles, timeline_track_node_ids,
                   master_track_mix_in_node_id, graph, published, port_exclusive>>

-----------------------------------------------------------------------------
(* add_timeline_track *)

\* add_timeline_track without its duplicate check.
AddRejectsNothing(indexes, id) == FALSE

AddRejects(indexes, id) == id \in DOMAIN indexes

\* The closure without the replacement of the mixer.
AddTrackEditsNoResize(n_id, node, mix_id, num_timeline_tracks) ==
    << EditAddNode(n_id, node),
       EditConnect(n_id, mix_id, num_timeline_tracks - 1) >>

\* The closure with the new node connected before the mixer is replaced.
AddTrackEditsConnectFirst(n_id, node, mix_id, num_timeline_tracks) ==
    << EditAddNode(n_id, node),
       EditConnect(n_id, mix_id, num_timeline_tracks - 1),
       EditReplaceNode(mix_id, StereoMixNode(num_timeline_tracks)) >>

\* The closure of add_timeline_track: the new node, the mixer replaced by
\* one with num_timeline_tracks inputs, the new node connected to the last.
AddTrackEdits(n_id, node, mix_id, num_timeline_tracks) ==
    << EditAddNode(n_id, node),
       EditReplaceNode(mix_id, StereoMixNode(num_timeline_tracks)),
       EditConnect(n_id, mix_id, num_timeline_tracks - 1) >>

\* The node added in one modify_graph call, the mixer replaced and the node
\* connected in a second one.
AddTrackGraphTwoBatches(g, n_id, node, mix_id, num_timeline_tracks, exclusive) ==
    LET r1 == ModifyGraph(g, << EditAddNode(n_id, node) >>, exclusive)
        r2 == ModifyGraph(r1.graph,
                          << EditReplaceNode(mix_id, StereoMixNode(num_timeline_tracks)),
                             EditConnect(n_id, mix_id, num_timeline_tracks - 1) >>,
                          exclusive)
    IN  [graph |-> r2.graph, ok |-> r1.ok /\ r2.ok,
         pubs |-> r1.pubs \o r2.pubs, batches |-> r1.batches + r2.batches]

AddTrackGraph(g, n_id, node, mix_id, num_timeline_tracks, exclusive) ==
    ModifyGraph(g, AddTrackEdits(n_id, node, mix_id, num_timeline_tracks), exclusive)

UsedUids == {save_tracks[k].uid : k \in DOMAIN save_tracks}
            \cup {timeline_track_handles[k].uid : k \in DOMAIN timeline_track_handles}
            \cup {graph.nodes[x].uid : x \in DOMAIN graph.nodes}

FreshUid == Min((1 .. (MaxTracks + 1)) \ UsedUids)

AddTimelineTrack(id) ==
    /\ ~panicked
    /\ IF AddRejects(timeline_track_indexes, id)
       THEN /\ last' = OpRecord("add", "Err", <<>>, 0)
            /\ UNCHANGED <<save_tracks, timeline_track_indexes, timeline_track_handles,
                           timeline_track_node_ids, graph, published, panicked>>
       ELSE /\ Len(save_tracks) < MaxTracks
            /\ LET track == TrackSave(id, FreshUid)
                   timeline_track_index == Len(save_tracks)
                   num_timeline_tracks == Len(save_tracks) + 1
                   n_id == NextNodeId(graph)
                   r == AddTrackGraph(graph, n_id, TimelineTrackNode(track.uid),
                                      master_track_mix_in_node_id,
                                      num_timeline_tracks, port_exclusive)
               IN  /\ timeline_track_indexes' =
                          MapInsert(timeline_track_indexes, id, timeline_track_index)
                   /\ timeline_track_handles' =
                          Append(timeline_track_handles, TrackHandle(track.uid))
                   /\ save_tracks' = Append(save_tracks, track)
                   /\ graph' = r.graph
                   /\ published' = IF r.pubs = <<>> THEN published
                                   ELSE r.pubs[Len(r.pubs)]
                   /\ IF r.ok
                      THEN /\ timeline_track_node_ids' =
                                  Append(timeline_track_node_ids, n_id)
                           /\ last' = OpRecord("add", "Ok", r.pubs, r.batches)
                           /\ UNCHANGED panicked
                      ELSE \* an unwrap inside the closure failed
                           /\ last' = OpRecord("add", "panic", r.pubs, r.batches)
                           /\ panicked' = TRUE
                           /\ UNCHANGED timeline_track_node_ids
    /\ UNCHANGED <<master_track_mix_in_node_id, port_exclusive>>

-----------------------------------------------------------------------------
(* remove_timeline_track *)

\* remove_timeline_track with the key left in the index table.
RemoveIndexesKeepsKey(indexes, id) == indexes

\* What remove_timeline_track does to the index table.
RemoveIndexes(indexes, id) == MapRemove(indexes, id)

\* The closure with the mixer shrunk to the tracks that are left.
RemoveTrackEditsResize(node_id, mix_id, num_timeline_tracks) ==
    << EditRemoveNode(node_id),
       EditReplaceNode(mix_id, StereoMixNode(num_timeline_tracks)) >>

\* The closure of remove_timeline_track.
RemoveTrackEdits(node_id, mix_id, num_timeline_tracks) == << EditRemoveNode(node_id) >>

RemoveTrackGraph(g, node_id, mix_id, num_timeline_tracks, exclusive) ==
    ModifyGraph(g, RemoveTrackEdits(node_id, mix_id, num_timeline_tracks), exclusive)

RemoveTimelineTrack(id) ==
    /\ ~panicked
    /\ IF id \in DOMAIN timeline_track_indexes
       THEN LET index == timeline_track_indexes[id]
            IN  /\ timeline_track_indexes' = RemoveIndexes(timeline_track_indexes, id)
                /\ IF /\ index < Len(save_tracks)
                      /\ index < Len(timeline_track_handles)
                      /\ index < Len(timeline_track_node_ids)
                   THEN LET node_id == timeline_track_node_ids[index + 1]
                            r == RemoveTrackGraph(graph, node_id,
                                                  master_track_mix_in_node_id,
                                                  Len(save_tracks) - 1, port_exclusive)
                        IN  /\ save_tracks' = RemoveAt(save_tracks, index)
                            /\ timeline_track_handles' =
                                   RemoveAt(timeline_track_handles, index)
                            /\ timeline_track_node_ids' =
                                   RemoveAt(timeline_track_node_ids, index)
                            /\ graph' = r.graph
                            /\ published' = IF r.pubs = <<>> THEN published
                                            ELSE r.pubs[Len(r.pubs)]
                            /\ last' = OpRecord("remove", IF r.ok THEN "Ok" ELSE "panic",
                                                r.pubs, r.batches)
                            /\ panicked' = ~r.ok
                   ELSE \* Vec::remove panics: the removal index is past the end
                        /\ last' = OpRecord("remove", "panic", <<>>, 0)
                        /\ panicked' = TRUE
                        /\ UNCHANGED <<save_tracks, timeline_track_handles,
                                       timeline_track_node_ids, graph, published>>
       ELSE /\ last' = OpRecord("remove", "Err", <<>>, 0)
            /\ UNCHANGED <<save_tracks, timeline_track_indexes, timeline_track_handles,
                           timeline_track_node_ids, graph, published, panicked>>
    /\ UNCHANGED <<master_track_mix_in_node_id, port_exclusive>>

-----------------------------------------------------------------------------
(* The shared cell, the render thread and the collector thread *)

NoSnapshot == 0 - 1

\* The paths of the audio files clips refer to.
Paths == {"kick.wav", "snare.wav"}

\* The threads that call ResourceLoader::load.
Callers == {"t1", "t2"}

\* Bound on the decodes of one path.
MaxDecodes == 2

\* The buffer the n-th decode of a path made.
Buffer(path, n) == [path |-> path, gen |-> n]

NoBuffer == [path |-> "", gen |-> 0]

NoEntries == [x \in {} |-> NoBuffer]

Versions == 0 .. MaxPublishes

\* A handle to version v went away; the versions that handle was the last of.
\* The SharedCell holds one handle to its current version, the render thread
\* one to the version it loaded.
Unreferenced(v, current, held) == IF v # current /\ v # held THEN {v} ELSE {}

\* A successful add_timeline_track or remove_timeline_track, seen from the
\* shared cell: its modify_graph call stores one new CompiledGraph, and the
\* handle to the one before is dropped on the control thread.
ControlPublish ==
    /\ ~dropped
    /\ cell < MaxPublishes
    /\ cell' = cell + 1
    /\ queued' = queued \cup Unreferenced(cell, cell + 1, render_held)
    /\ UNCHANGED <<cache, running, dropped, coll_pc, cache_lock, render_held, freed,
                   cycle_events, stop_collects>>

\* A holder of the resource loader's mutex panics.
ControlPoisonLock ==
    /\ ~dropped
    /\ cache_lock = "free"
    /\ cache_lock' = "poisoned"
    /\ UNCHANGED <<cache, running, dropped, coll_pc, cell, render_held, queued, freed,
                   cycle_events, stop_collects>>

\* Drop for ProjectInterface.
ControlDrop ==
    /\ ~dropped
    /\ running' = FALSE
    /\ dropped' = TRUE
    /\ UNCHANGED <<cache, coll_pc, cache_lock, cell, render_held, queued, freed,
                   cycle_events, stop_collects>>

\* The render thread clones the cell's handle for one processing cycle.
RenderLoad ==
    /\ render_held = NoSnapshot
    /\ render_held' = cell
    /\ UNCHANGED <<cache, running, dropped, coll_pc, cache_lock, cell, queued, freed,
                   cycle_events, stop_collects>>

\* and drops it at the end of the cycle.
RenderRelease ==
    /\ render_held # NoSnapshot
    /\ render_held' = NoSnapshot
    /\ queued' = queued \cup Unreferenced(render_held, cell, NoSnapshot)
    /\ UNCHANGED <<cache, running, dropped, coll_pc, cache_lock, cell, freed,
                   cycle_events, stop_collects>>

\* A loop that never looks at the flag.
CollectorCheckIgnoresFlag ==
    /\ coll_pc = "check"
    /\ coll_pc' = "sleep"
    /\ cycle_events' = <<>>
    /\ UNCHANGED <<cache, running, dropped, cache_lock, cell, render_held, queued, freed,
                   stop_collects>>

\* run_collector: while running.load(SeqCst)
CollectorCheck ==
    /\ coll_pc = "check"
    /\ coll_pc' = IF running THEN "sleep" ELSE "exited"
    /\ cycle_events' = <<>>
    /\ UNCHANGED <<cache, running, dropped, cache_lock, cell, render_held, queued, freed,
                   stop_collects>>

\* std::thread::sleep(COLLECT_INTERVAL)
CollectorSleep ==
    /\ coll_pc = "sleep"
    /\ coll_pc' = "lock"
    /\ UNCHANGED <<cache, running, dropped, cache_lock, cell, render_held, queued, freed,
                   cycle_events, stop_collects>>

\* A loop that goes on to collector.collect() when the mutex is poisoned.
CollectorLockNoBreak ==
    /\ coll_pc = "lock"
    /\ cache_lock \in {"free", "poisoned"}
    /\ IF cache_lock = "poisoned"
       THEN /\ coll_pc' = "collect"
            /\ cycle_events' = cycle_events \o <<"lock_err", "log_error">>
            /\ UNCHANGED cache_lock
       ELSE /\ coll_pc' = "cache_collect"
            /\ cache_lock' = "collector"
            /\ cycle_events' = Append(cycle_events, "lock_ok")
    /\ UNCHANGED <<cache, running, dropped, cell, render_held, queued, freed, stop_collects>>

\* resource_loader.lock(): Err on a poisoned mutex, which is logged and
\* breaks the loop.
CollectorLock ==
    /\ coll_pc = "lock"
    /\ cache_lock \in {"free", "poisoned"}
    /\ IF cache_lock = "poisoned"
       THEN /\ coll_pc' = "exited"
            /\ cycle_events' = cycle_events \o <<"lock_err", "log_error">>
            /\ UNCHANGED cache_lock
       ELSE /\ coll_pc' = "cache_collect"
            /\ cache_lock' = "collector"
            /\ cycle_events' = Append(cycle_events, "lock_ok")
    /\ UNCHANGED <<cache, running, dropped, cell, render_held, queued, freed, stop_collects>>

\* ResourceLoader::collect: the entries no handle outside the cache is left
\* to are dropped from the cache.
ResourceLoaderCollect(entries, handles) ==
    [q \in {x \in DOMAIN entries : \E t \in DOMAIN handles : handles[t] = entries[x]}
        |-> entries[q]]

\* A loop whose guard lives on past collector.collect().
CollectorCacheCollectKeepsLock ==
    /\ coll_pc = "cache_collect"
    /\ coll_pc' = "collect"
    /\ cycle_events' = Append(cycle_events, "cache_collect")
    /\ cache' = ResourceLoaderCollect(cache, held_buffer)
    /\ UNCHANGED <<running, dropped, cache_lock, cell, render_held, queued, freed,
                   stop_collects>>

\* res_loader.collect(), then the guard goes out of scope.
CollectorCacheCollect ==
    /\ coll_pc = "cache_collect"
    /\ coll_pc' = "collect"
    /\ cache_lock' = "free"
    /\ cycle_events' = cycle_events \o <<"cache_collect", "unlock">>
    /\ cache' = ResourceLoaderCollect(cache, held_buffer)
    /\ UNCHANGED <<running, dropped, cell, render_held, queued, freed, stop_collects>>

\* A collect() that frees every superseded snapshot, referenced or not.
CollectFreesSuperseded(queue, current) == 0 .. (current - 1)

\* A collect() that frees nothing.
CollectFreesNothing(queue, current) == {}

\* What collector.collect() frees: the allocations queued for it.
CollectFrees(queue, current) == queue

\* collector.collect()
CollectorCollect ==
    /\ coll_pc = "collect"
    /\ coll_pc' = "check"
    /\ freed' = freed \cup CollectFrees(queued, cell)
    /\ queued' = queued \ CollectFrees(queued, cell)
    /\ cycle_events' = Append(cycle_events, "collect")
    /\ stop_collects' = IF running \/ stop_collects = MaxStopCollects
                        THEN stop_collects ELSE stop_collects + 1
    /\ UNCHANGED <<cache, running, dropped, cache_lock, cell, render_held>>

CollectorStep ==
    \/ CollectorCheck
    \/ CollectorSleep
    \/ CollectorLock
    \/ CollectorCacheCollect
    \/ CollectorCollect

\* ProjectInterface::new: the flag set, the collector thread spawned, the
\* first CompiledGraph in the cell.
InitRc ==
    /\ running = TRUE
    /\ dropped = FALSE
    /\ coll_pc = "check"
    /\ cache_lock = "free"
    /\ cell = 0
    /\ render_held = NoSnapshot
    /\ queued = {}
    /\ freed = {}
    /\ cycle_events = <<>>
    /\ stop_collects = 0
    /\ cache = NoEntries

-----------------------------------------------------------------------------
(* ResourceLoader::load under the mutex *)

\* A caller asks for a path: TimelineTrackNode::new is handed the
\* Arc<Mutex<ResourceLoader>> and resolves a clip's file through it.
LoadCall(t, path) ==
    /\ load_pc[t] = "idle"
    /\ decodes[path] < MaxDecodes
    /\ load_pc' = [load_pc EXCEPT ![t] = "want"]
    /\ load_path' = [load_path EXCEPT ![t] = path]
    /\ load_uncached' = [load_uncached EXCEPT ![t] = path \notin DOMAIN cache]
    /\ UNCHANGED <<cache, cache_lock, decodes, held_buffer>>

\* A caller that goes on without the mutex.
LoadLockNoMutex(t) ==
    /\ load_pc[t] = "want"
    /\ cache_lock # "poisoned"
    /\ load_pc' = [load_pc EXCEPT ![t] = "locked"]
    /\ UNCHANGED <<cache, cache_lock, decodes, load_path, load_uncached, held_buffer>>

\* resource_loader.lock()
LoadLock(t) ==
    /\ load_pc[t] = "want"
    /\ cache_lock = "free"
    /\ cache_lock' = t
    /\ load_pc' = [load_pc EXCEPT ![t] = "locked"]
    /\ UNCHANGED <<cache, decodes, load_path, load_uncached, held_buffer>>

\* load looks the path up: a cached buffer is returned, the guard dropped.
LoadLookup(t) ==
    /\ load_pc[t] = "locked"
    /\ IF load_path[t] \in DOMAIN cache
       THEN /\ held_buffer' = [held_buffer EXCEPT ![t] = cache[load_path[t]]]
            /\ load_pc' = [load_pc EXCEPT ![t] = "holding"]
            /\ cache_lock' = IF cache_lock = t THEN "free" ELSE cache_lock
       ELSE /\ load_pc' = [load_pc EXCEPT ![t] = "decode"]
            /\ UNCHANGED <<held_buffer, cache_lock>>
    /\ UNCHANGED <<cache, decodes, load_path, load_uncached>>

\* load decodes the file, inserts the buffer under its path and returns a
\* handle to it; the guard is dropped.
LoadDecode(t) ==
    /\ load_pc[t] = "decode"
    /\ LET path == load_path[t]
           buffer == Buffer(path, decodes[path] + 1)
       IN  /\ decodes' = [decodes EXCEPT ![path] = @ + 1]
           /\ cache' = MapInsert(cache, path, buffer)
           /\ held_buffer' = [held_buffer EXCEPT ![t] = buffer]
    /\ load_pc' = [load_pc EXCEPT ![t] = "holding"]
    /\ cache_lock' = IF cache_lock = t THEN "free" ELSE cache_lock
    /\ UNCHANGED <<load_path, load_uncached>>

\* The caller's handle is dropped.
LoadDropHandle(t) ==
    /\ load_pc[t] = "holding"
    /\ load_pc' = [load_pc EXCEPT ![t] = "idle"]
    /\ held_buffer' = [held_buffer EXCEPT ![t] = NoBuffer]
    /\ UNCHANGED <<cache, cache_lock, decodes, load_path, load_uncached>>

InitLoader ==
    /\ decodes = [q \in Paths |-> 0]
    /\ load_pc = [t \in Callers |-> "idle"]
    /\ load_path = [t \in Callers |-> "kick.wav"]
    /\ load_uncached = [t \in Callers |-> FALSE]
    /\ held_buffer = [t \in Callers |-> NoBuffer]

-----------------------------------------------------------------------------
(* The control thread's operations on the tracks *)

Init == InitCtl /\ InitRc /\ InitLoader

Next ==
    \/ \E id \in Ids : AddTimelineTrack(id) /\ UNCHANGED <<rc_vars, loader_vars>>
    \/ \E id \in Ids : RemoveTimelineTrack(id) /\ UNCHANGED <<rc_vars, loader_vars>>
    \/ \E old_id \in Ids, new_id \in Ids :
            SetTimelineTrackId(old_id, new_id) /\ UNCHANGED <<rc_vars, loader_vars>>

Spec == Init /\ [][Next]_vars

-----------------------------------------------------------------------------
(* The three threads around the shared cell, for an empty project *)

CollectorInit ==
    /\ InitCtl
    /\ save_tracks = <<>>
    /\ port_exclusive = FALSE
    /\ InitRc
    /\ InitLoader

CollectorNext ==
    \/ ControlPublish /\ UNCHANGED <<ctl_vars, loader_vars>>
    \/ ControlPoisonLock /\ UNCHANGED <<ctl_vars, loader_vars>>
    \/ ControlDrop /\ UNCHANGED <<ctl_vars, loader_vars>>
    \/ RenderLoad /\ UNCHANGED <<ctl_vars, loader_vars>>
    \/ RenderRelease /\ UNCHANGED <<ctl_vars, loader_vars>>
    \/ CollectorCheck /\ UNCHANGED <<ctl_vars, loader_vars>>
    \/ CollectorSleep /\ UNCHANGED <<ctl_vars, loader_vars>>
    \/ CollectorLock /\ UNCHANGED <<ctl_vars, loader_vars>>
    \/ CollectorCacheCollect /\ UNCHANGED <<ctl_vars, loader_vars>>
    \/ CollectorCollect /\ UNCHANGED <<ctl_vars, loader_vars>>

\* The collector thread is a spawned thread that keeps being scheduled, and
\* the render thread ends every processing cycle.
CollectorSpec ==
    /\ CollectorInit
    /\ [][CollectorNext]_vars
    /\ WF_vars(CollectorStep /\ UNCHANGED <<ctl_vars, loader_vars>>)
    /\ WF_vars(RenderRelease /\ UNCHANGED <<ctl_vars, loader_vars>>)

-----------------------------------------------------------------------------
(* The callers of load and the collector thread around the ResourceLoader *)

CacheNext ==
    \/ \E t \in Callers, path \in Paths :
            LoadCall(t, path) /\ UNCHANGED <<ctl_vars, cell_vars>>
    \/ \E t \in Callers : LoadLock(t) /\ UNCHANGED <<ctl_vars, cell_vars>>
    \/ \E t \in Callers : LoadLookup(t) /\ UNCHANGED <<ctl_vars, cell_vars>>
    \/ \E t \in Callers : LoadDecode(t) /\ UNCHANGED <<ctl_vars, cell_vars>>
    \/ \E t \in Callers : LoadDropHandle(t) /\ UNCHANGED <<ctl_vars, cell_vars>>
    \/ CollectorCheck /\ UNCHANGED <<ctl_vars, loader_vars>>
    \/ CollectorSleep /\ UNCHANGED <<ctl_vars, loader_vars>>
    \/ CollectorLock /\ UNCHANGED <<ctl_vars, loader_vars>>
    \/ CollectorCacheCollect /\ UNCHANGED <<ctl_vars, loader_vars>>
    \/ CollectorCollect /\ UNCHANGED <<ctl_vars, loader_vars>>

CacheSpec == CollectorInit /\ [][CacheNext]_vars

-----------------------------------------------------------------------------
(* Properties of the track tables *)

\* A track with this ID is in the save state.
Present(id) == \E k \in DOMAIN save_tracks : save_tracks[k].id = id

\* The NodeIDs of g that hold the node built for the track value uid.
NodesOf(g, uid) == {x \in DOMAIN g.nodes : g.nodes[x] = TimelineTrackNode(uid)}

\* C1: after every completed operation, every entry id -> i of the index
\* table has i inside the tables, the save-state entry at i carries that id,
\* the handle and the node ID at i are the ones built for that entry, and no
\* two IDs share an index.
IndexTableMatchesTables ==
    ~panicked =>
        /\ \A id \in DOMAIN timeline_track_indexes :
            LET i == timeline_track_indexes[id]
            IN  /\ i < Len(save_tracks)
                /\ i < Len(timeline_track_handles)
                /\ i < Len(timeline_track_node_ids)
                /\ save_tracks[i + 1].id = id
                /\ timeline_track_handles[i + 1] = TrackHandle(save_tracks[i + 1].uid)
                /\ timeline_track_node_ids[i + 1] \in NodesOf(graph, save_tracks[i + 1].uid)
        /\ \A id1, id2 \in DOMAIN timeline_track_indexes :
            id1 # id2 => timeline_track_indexes[id1] # timeline_track_indexes[id2]

\* C2: remove_timeline_track(x) of a present track x returns Ok and takes
\* out exactly the save-state entry, the handle, the node ID and the graph
\* node of track x, leaving every other track's in place.
RemoveTakesOutOwnTrack ==
    [][\A x \in Ids :
        (RemoveTimelineTrack(x) /\ x \in DOMAIN timeline_track_indexes /\ Present(x))
        => /\ last'.result = "Ok"
           /\ \E k \in DOMAIN save_tracks :
                /\ save_tracks[k].id = x
                /\ save_tracks' = RemoveAt(save_tracks, k - 1)
                /\ timeline_track_handles' = RemoveAt(timeline_track_handles, k - 1)
                /\ timeline_track_node_ids' = RemoveAt(timeline_track_node_ids, k - 1)
                /\ DOMAIN graph'.nodes =
                       (DOMAIN graph.nodes) \ NodesOf(graph, save_tracks[k].uid)
                /\ \A n \in DOMAIN graph'.nodes : graph'.nodes[n] = graph.nodes[n]
      ]_vars

\* C3: timeline_track(id) and timeline_track_mut(id) never index past the
\* end of a table, return None exactly when no present track has that id,
\* and otherwise return the save state with that id and the handle built
\* for it.
LookupOk(r, id) ==
    /\ r.tag # "panic"
    /\ (r.tag = "None") <=> ~Present(id)
    /\ r.tag = "Some" => (r.save.id = id /\ r.handle = TrackHandle(r.save.uid))

LookupFindsPresentTrack ==
    ~panicked =>
        \A id \in Ids : LookupOk(timeline_track(id), id) /\ LookupOk(timeline_track_mut(id), id)

\* C4: add_timeline_track with an ID that is a key of the index table
\* returns Err, changes none of the tables nor the graph, and publishes
\* nothing.
DuplicateAddRejected ==
    [][\A id \in Ids :
        (AddTimelineTrack(id) /\ id \in DOMAIN timeline_track_indexes)
        => /\ last'.result = "Err"
           /\ last'.pubs = <<>>
           /\ UNCHANGED <<save_tracks, timeline_track_indexes, timeline_track_handles,
                          timeline_track_node_ids, master_track_mix_in_node_id,
                          graph, published>>
      ]_vars

\* A duplicate add was rejected in a project that holds tracks.
DuplicateAddRejectedWitness ==
    /\ last.op = "add"
    /\ last.result = "Err"
    /\ Len(save_tracks) >= 2

\* C5: after a successful add_timeline_track the published snapshot's mixer
\* has as many inputs as there are tracks, and the node of the added track
\* has exactly one connection, to one of those inputs.
AddPublishesSizedMixer ==
    (last.op = "add" /\ last.result = "Ok") =>
        LET n == Len(save_tracks)
            mix == master_track_mix_in_node_id
            added == NodesOf(published, save_tracks[n].uid)
        IN  /\ last.pubs # <<>>
            /\ published = last.pubs[Len(last.pubs)]
            /\ mix \in DOMAIN published.nodes
            /\ published.nodes[mix] = StereoMixNode(n)
            /\ added = {timeline_track_node_ids[n]}
            /\ \E c \in published.conns :
                /\ {d \in published.conns : d.src \in added} = {c}
                /\ c.dst = mix
                /\ c.dst_port < published.nodes[mix].inputs

\* A track was added after a removal: the added track shares its mixer input
\* with a track that was there before.
AddAfterRemovalWitness ==
    /\ last.op = "add"
    /\ last.result = "Ok"
    /\ \E c, d \in published.conns : c # d /\ c.dst = d.dst /\ c.dst_port = d.dst_port

\* C11: in every add_timeline_track that passes the duplicate check, the
\* one add_port_connection of the closure is called after the mixer has been
\* replaced by a StereoMixNode with as many inputs as there are tracks now,
\* and asks for port (track count - 1), which that mixer has.
MixerResizedBeforeConnect ==
    [][\A id \in Ids :
        (AddTimelineTrack(id) /\ ~AddRejects(timeline_track_indexes, id))
        => LET n == Len(save_tracks')
               mix == master_track_mix_in_node_id
               edits == AddTrackEdits(NextNodeId(graph), TimelineTrackNode(FreshUid),
                                      mix, n)
               moments == ConnectMoments(graph, edits, port_exclusive)
           IN  /\ n = Len(save_tracks) + 1
               /\ graph' = ApplyEdits(graph, edits, port_exclusive).graph
               /\ Len(moments) = 1
               /\ moments[1].dst = mix
               /\ moments[1].dst_node = StereoMixNode(n)
               /\ moments[1].port = n - 1
               /\ moments[1].port < moments[1].dst_node.inputs
      ]_vars

\* A third track was added and connected to the last input of the mixer,
\* which has three inputs.
MixerResizedWitness ==
    /\ last.op = "add"
    /\ last.result = "Ok"
    /\ Len(save_tracks) = 3
    /\ Conn(timeline_track_node_ids[3], 0, master_track_mix_in_node_id, 2) \in graph.conns
    /\ graph.nodes[master_track_mix_in_node_id].inputs = 3

\* C12: after every operation that has returned, the save-state tracks, the
\* handles and the node IDs are equally many, as many as the index table
\* has keys.
TablesEquallyLong ==
    ~panicked =>
        /\ Len(timeline_track_handles) = Len(save_tracks)
        /\ Len(timeline_track_node_ids) = Len(save_tracks)
        /\ Cardinality(DOMAIN timeline_track_indexes) = Len(save_tracks)

\* Two tracks are left after adds, a removal and a change of ID.
TablesEquallyLongWitness ==
    /\ ~panicked
    /\ last.op = "set_id"
    /\ last.result = "Ok"
    /\ Len(save_tracks) = 2
    /\ Cardinality(DOMAIN graph.nodes) = 3
    /\ graph.nodes[master_track_mix_in_node_id].inputs = 3

\* C13: remove_timeline_track of an ID the index table does not hold,
\* set_timeline_track_id from an old ID it does not hold, and
\* set_timeline_track_id to a new ID it holds already, each return Err and
\* leave the save state, the index table, the handles, the node IDs, the
\* graph and the published snapshot as they were.
ErrorsChangeNothing ==
    [][\A x, y \in Ids :
        /\ (RemoveTimelineTrack(x) /\ x \notin DOMAIN timeline_track_indexes)
            => /\ last'.result = "Err"
               /\ UNCHANGED <<save_tracks, timeline_track_indexes,
                              timeline_track_handles, timeline_track_node_ids,
                              master_track_mix_in_node_id, graph, published>>
        /\ (SetTimelineTrackId(x, y)
                /\ (x \notin DOMAIN timeline_track_indexes
                    \/ y \in DOMAIN timeline_track_indexes))
            => /\ last'.result = "Err"
               /\ UNCHANGED <<save_tracks, timeline_track_indexes,
                              timeline_track_handles, timeline_track_node_ids,
                              master_track_mix_in_node_id, graph, published>>
      ]_vars

\* A change of ID was refused in a project that holds two tracks or more.
ErrorsChangeNothingWitness ==
    /\ last.op = "set_id"
    /\ last.result = "Err"
    /\ Len(save_tracks) >= 2
    /\ Cardinality(DOMAIN timeline_track_indexes) >= 2

\* The mixer input ports the track at position k of the tables is connected to.
MixerPortsOf(k) ==
    {c.dst_port : c \in {d \in graph.conns :
                            /\ d.src = timeline_track_node_ids[k]
                            /\ d.dst = master_track_mix_in_node_id}}

\* C18: after every add and remove that has returned, no two tracks in the
\* tables are connected to one mixer input port, and every port a track is
\* connected to is one the mixer has.
MixerPortsDistinct ==
    ~panicked =>
        /\ \A k1, k2 \in DOMAIN timeline_track_node_ids :
                k1 # k2 => MixerPortsOf(k1) \cap MixerPortsOf(k2) = {}
        /\ \A k \in DOMAIN timeline_track_node_ids :
                \A port \in MixerPortsOf(k) :
                    port < graph.nodes[master_track_mix_in_node_id].inputs

\* C19: new, given n tracks with distinct IDs, makes one modify_graph call
\* that publishes once, a graph of one node per track and one mixer with n
\* inputs, track i connected to mixer input i and nothing else connected;
\* the index table maps each ID to its position, and the handle and node-ID
\* tables have one entry per track, in the order of the tracks.
NewBuildsProject ==
    last.op = "new" =>
        LET n == Len(save_tracks)
            mix == master_track_mix_in_node_id
        IN  /\ last.batches = 1
            /\ last.pubs = <<Compile(graph)>>
            /\ published = Compile(graph)
            /\ Len(timeline_track_handles) = n
            /\ Len(timeline_track_node_ids) = n
            /\ Cardinality(DOMAIN graph.nodes) = n + 1
            /\ Cardinality({timeline_track_node_ids[k] : k \in 1 .. n}) = n
            /\ mix \in DOMAIN graph.nodes
            /\ graph.nodes[mix] = StereoMixNode(n)
            /\ \A k \in 1 .. n :
                    /\ timeline_track_node_ids[k] \in DOMAIN graph.nodes
                    /\ graph.nodes[timeline_track_node_ids[k]]
                           = TimelineTrackNode(save_tracks[k].uid)
                    /\ timeline_track_handles[k] = TrackHandle(save_tracks[k].uid)
            /\ graph.conns = {Conn(timeline_track_node_ids[k], 0, mix, k - 1) : k \in 1 .. n}
            /\ DOMAIN timeline_track_indexes = {save_tracks[k].id : k \in 1 .. n}
            /\ \A k \in 1 .. n : timeline_track_indexes[save_tracks[k].id] = k - 1

\* A project just built from three tracks.
NewBuildsProjectWitness ==
    /\ last.op = "new"
    /\ Len(save_tracks) = 3
    /\ Cardinality(graph.conns) = 3
    /\ ~panicked

\* C6: a successful add or remove makes one modify_graph call and one
\* publish, of the graph with all its edits applied; set_timeline_track_id
\* and every operation that returns Err publish nothing; and no snapshot an
\* add publishes holds the added node unconnected or the mixer at its old size.
SnapshotComplete(snap) ==
    LET n == Len(save_tracks)
        mix == master_track_mix_in_node_id
    IN  \A x \in NodesOf(snap, save_tracks[n].uid) :
            /\ mix \in DOMAIN snap.nodes
            /\ snap.nodes[mix].inputs = n
            /\ \E c \in snap.conns : c.src = x /\ c.dst = mix

PublishedByLast ==
    /\ (last.op \in {"add", "remove"} /\ last.result = "Ok") =>
            /\ last.batches = 1
            /\ last.pubs = <<Compile(graph)>>
            /\ published = Compile(graph)
    /\ (last.op = "set_id" \/ last.result = "Err") =>
            (last.pubs = <<>> /\ last.batches = 0)
    /\ (last.op = "add" /\ last.result = "Ok") =>
            \A k \in DOMAIN last.pubs : SnapshotComplete(last.pubs[k])

OnePublishPerMutation ==
    /\ []PublishedByLast
    /\ [][(last'.op = "set_id" \/ last'.result = "Err") => published' = published]_vars

\* An add published its snapshot in a project that already held a track.
OnePublishWitness ==
    /\ last.op = "add"
    /\ last.result = "Ok"
    /\ Len(last.pubs) = 1
    /\ Len(save_tracks) >= 2

\* C9: set_timeline_track_id(old_id, new_id) returns Ok exactly when old_id
\* is present and new_id is not; after Ok the lookup of new_id gives the
\* track the lookup of old_id gave, with its id field now new_id, and the
\* lookup of old_id gives None.
SetIdRenames ==
    [][\A old_id, new_id \in Ids :
        SetTimelineTrackId(old_id, new_id)
        => /\ (last'.result = "Ok") <=>
                  (old_id \in DOMAIN timeline_track_indexes
                   /\ new_id \notin DOMAIN timeline_track_indexes)
           /\ last'.result = "Ok" =>
                  /\ timeline_track(old_id).tag = "Some"
                  /\ timeline_track(new_id)' =
                         [timeline_track(old_id) EXCEPT !.save.id = new_id]
                  /\ timeline_track(old_id)'.tag = "None"
      ]_vars

\* C20: a set_timeline_track_id(old_id, new_id) that returns Ok moves the
\* index stored under old_id to new_id and sets the id of the save-state
\* entry of track old_id to new_id; every other entry of the index table
\* and of the save state, the order and length of the three tables, the
\* graph, the mixer and the published snapshot stay as they were.
SetIdChangesOnlyKeyAndId ==
    [][\A old_id, new_id \in Ids :
        (SetTimelineTrackId(old_id, new_id) /\ last'.result = "Ok")
        => /\ old_id \in DOMAIN timeline_track_indexes
           /\ timeline_track_indexes' =
                  MapInsert(MapRemove(timeline_track_indexes, old_id), new_id,
                            timeline_track_indexes[old_id])
           /\ Len(save_tracks') = Len(save_tracks)
           /\ \A k \in DOMAIN save_tracks :
                  save_tracks'[k] = IF save_tracks[k].id = old_id
                                    THEN [save_tracks[k] EXCEPT !.id = new_id]
                                    ELSE save_tracks[k]
           /\ UNCHANGED <<timeline_track_handles, timeline_track_node_ids,
                          master_track_mix_in_node_id, graph, published>>
      ]_vars

\* C10: a successful remove_timeline_track leaves the mixer node as it was:
\* same node, same number of inputs, same NodeID, in the graph and in the
\* published snapshot.
RemoveKeepsMixer ==
    [][(last'.op = "remove" /\ last'.result = "Ok")
        => /\ master_track_mix_in_node_id' = master_track_mix_in_node_id
           /\ master_track_mix_in_node_id \in DOMAIN graph'.nodes
           /\ graph'.nodes[master_track_mix_in_node_id]
                  = graph.nodes[master_track_mix_in_node_id]
           /\ published'.nodes[master_track_mix_in_node_id]
                  = published.nodes[master_track_mix_in_node_id]
      ]_vars

\* A removal left the mixer with more inputs than there are tracks.
RemoveKeepsMixerWitness ==
    /\ last.op = "remove"
    /\ last.result = "Ok"
    /\ graph.nodes[master_track_mix_in_node_id].inputs = Len(save_tracks) + 1
    /\ published.nodes[master_track_mix_in_node_id].inputs = Len(save_tracks) + 1

-----------------------------------------------------------------------------
(* Properties of the shared cell and the collector *)

Superseded(v) == v < cell

\* C7: a superseded snapshot is never freed while the render thread holds a
\* clone of its handle, the snapshot in the cell is never freed, and memory
\* is freed by no step other than the collector thread's collector.collect().
FreedOnlyWhenUnheldByCollector ==
    /\ [](render_held \notin freed /\ cell \notin freed)
    /\ [][freed' # freed => (coll_pc = "collect" /\ coll_pc' = "check")]_vars

\* The render thread still holds a superseded snapshot after a collect()
\* freed another one.
HeldAcrossCollectWitness ==
    /\ render_held # NoSnapshot
    /\ Superseded(render_held)
    /\ freed # {}

\* C8 as claimed: every superseded snapshot is eventually freed, in every
\* execution.
EverySupersededFreed == \A v \in Versions : Superseded(v) ~> (v \in freed)

\* C8 as amended: collector.collect() frees every superseded snapshot no
\* handle is left to, and every superseded snapshot is eventually freed
\* unless the collector loop has exited.
SupersededFreedWhileLoopRuns ==
    /\ [][(coll_pc = "collect" /\ coll_pc' = "check") =>
            \A v \in Versions :
                (Superseded(v) /\ render_held # v) => v \in freed']_vars
    /\ \A v \in Versions : Superseded(v) ~> (v \in freed \/ coll_pc = "exited")

\* Two superseded snapshots have been freed while the loop is running.
SupersededFreedWitness ==
    /\ {0, 1} \subseteq freed
    /\ coll_pc # "exited"

\* What a cycle that got the lock does, in order.
FullCycle == <<"lock_ok", "cache_collect", "unlock", "collect">>

\* What a cycle that found the mutex poisoned does.
FailedCycle == <<"lock_err", "log_error">>

IsPrefix(s, t) == Len(s) <= Len(t) /\ s = SubSeq(t, 1, Len(s))

\* C14: once running has been cleared run_collector exits: the flag stays
\* cleared, a read of the cleared flag at the top of the loop ends the loop,
\* a cycle that is past its read of the flag is not cut short by the flag,
\* and no more than one collector.collect() is called with the flag cleared.
LoopExitsAfterStop ==
    /\ (~running) ~> (coll_pc = "exited")
    /\ [][~running => ~running']_vars
    /\ [][(coll_pc = "check" /\ ~running /\ coll_pc' # coll_pc)
            => (coll_pc' = "exited" /\ cycle_events' = <<>>)]_vars
    /\ [][(coll_pc \in {"sleep", "cache_collect", "collect"} /\ coll_pc' # coll_pc)
            => coll_pc' # "exited"]_vars
    /\ [](stop_collects <= 1)

\* The flag was cleared while a cycle was under way; that cycle called
\* collector.collect() and the loop exited at its next read of the flag.
LoopExitsAfterStopWitness ==
    /\ ~running
    /\ coll_pc = "exited"
    /\ stop_collects = 1
    /\ cycle_events = <<>>

\* C15: a cycle that finds the mutex poisoned logs the error and ends the
\* loop without a call of ResourceLoader::collect or collector.collect(),
\* and the exited loop does nothing more, whatever the flag says.
PoisonedLockEndsLoop ==
    /\ [][(coll_pc = "lock" /\ cache_lock = "poisoned" /\ coll_pc' # coll_pc)
            => (coll_pc' = "exited" /\ cycle_events' = FailedCycle)]_vars
    /\ [][coll_pc = "exited" => UNCHANGED <<coll_pc, cycle_events, freed, stop_collects>>]_vars
    /\ [](cycle_events # <<>> /\ Head(cycle_events) = "lock_err"
            => (cycle_events = FailedCycle /\ coll_pc = "exited"))

\* The loop has exited on a poisoned mutex with the flag still set, and a
\* superseded snapshot is left queued.
PoisonedLockWitness ==
    /\ running
    /\ coll_pc = "exited"
    /\ cache_lock = "poisoned"
    /\ cycle_events = FailedCycle
    /\ queued # {}

\* C16: a cycle that got the lock calls ResourceLoader::collect, lets go of
\* the mutex, then calls collector.collect(), each once; the collector
\* thread does not hold the mutex when collector.collect() is called.
CycleOrder ==
    /\ [](IsPrefix(cycle_events, FullCycle) \/ cycle_events = FailedCycle)
    /\ []((coll_pc = "check" /\ cycle_events # <<>>) => cycle_events = FullCycle)
    /\ []((coll_pc = "collect") => cycle_events = SubSeq(FullCycle, 1, 3))
    /\ [][(coll_pc = "collect" /\ coll_pc' # coll_pc)
            => (cache_lock # "collector" /\ cycle_events' = FullCycle)]_vars

\* A second cycle has run to its end and freed a snapshot.
CycleOrderWitness ==
    /\ coll_pc = "check"
    /\ cycle_events = FullCycle
    /\ cache_lock = "free"
    /\ freed = {0, 1}
    /\ running

-----------------------------------------------------------------------------
(* Properties of the ResourceLoader *)

Holding(t, path) == load_pc[t] = "holding" /\ load_path[t] = path

\* C17: loads of one path that is not cached, under way at the same time,
\* decode the file once and return handles to one buffer; no path is being
\* decoded by two callers at once; a decode happens only for a path that is
\* not cached; and a load of a cached path returns the cached buffer
\* without a decode.
ConcurrentLoadsDecodeOnce ==
    /\ [](\A t1, t2 \in Callers, path \in Paths :
            (Holding(t1, path) /\ Holding(t2, path))
                => held_buffer[t1] = held_buffer[t2])
    /\ [](\A path \in Paths :
            Cardinality({t \in Callers : load_pc[t] = "decode" /\ load_path[t] = path}) <= 1)
    /\ [](\A path \in DOMAIN cache : cache[path] = Buffer(path, decodes[path]))
    /\ [][\A path \in Paths :
            decodes'[path] # decodes[path]
                => /\ path \notin DOMAIN cache
                   /\ decodes'[path] = decodes[path] + 1
                   /\ path \in DOMAIN cache']_vars
    /\ [][\A t \in Callers :
            (load_pc[t] = "locked" /\ load_pc'[t] # "locked"
                /\ load_path[t] \in DOMAIN cache)
                => /\ load_pc'[t] = "holding"
                   /\ held_buffer'[t] = cache[load_path[t]]
                   /\ decodes' = decodes]_vars

\* Both callers asked for one path while it was not cached, and both now
\* hold the buffer of its one decode.
ConcurrentLoadsWitness ==
    \E path \in Paths :
        /\ \A t \in Callers : Holding(t, path) /\ load_uncached[t]
        /\ decodes[path] = 1
        /\ \A t \in Callers : held_buffer[t] = Buffer(path, 1)

====
